---- MODULE Spec2Model ----
(***************************************************************************)
(* Beam Stress Analyzer (src/src/App.jsx): the React component's state     *)
(* hooks, its two memoised computations (sectionProps, Q_point) and the    *)
(* four stress formulas evaluated on every render.                         *)
(*                                                                         *)
(* Numbers.  The component computes with JavaScript numbers.  The model    *)
(* computes with exact values: a finite value is pi^p times a sum of       *)
(* rational multiples of square roots of squarefree integers, which is     *)
(* closed under every operation the component performs (products with      *)
(* Math.PI, Math.pow(x, 1.5), quotients by section properties).  Division  *)
(* by zero and Math.pow of a negative base give the non-finite values      *)
(* "inf" and "nan" as in IEEE-754; the sign of an infinity is not tracked. *)
(* Rounding of binary floating point is not modelled.                      *)
(***************************************************************************)
EXTENDS Integers, Sequences, FiniteSets, TLC

(***************************************************************************)
(* Rationals: [n, d, e, f] stands for (n/d) * 2^e * 5^f, in normal form    *)
(* (gcd(n,d) = 1, d > 0, n and d divisible by neither 2 nor 5, zero is     *)
(* [0, 1, 0, 0]).  The exponents keep the integers small under the unit    *)
(* factors 0.001, 1000 and 1e6 and for decimal fractions.                  *)
(***************************************************************************)
RECURSIVE Gcd(_, _)
Gcd(a, b) == IF b = 0 THEN a ELSE Gcd(b, a % b)

IAbs(x) == IF x < 0 THEN -x ELSE x

RECURSIVE IPow(_, _)
IPow(b, k) == IF k = 0 THEN 1 ELSE b * IPow(b, k - 1)

\* The number of factors p in x (x # 0).
RECURSIVE Cnt(_, _)
Cnt(x, p) == IF x % p = 0 THEN 1 + Cnt(x \div p, p) ELSE 0

\* (n/d) * 2^e * 5^f with the common factor g of n and d removed.
RQuot(n, d, e, f, g) == [n |-> n \div g, d |-> d \div g, e |-> e, f |-> f]
RReduce(n, d, e, f) == RQuot(n, d, e, f, Gcd(IAbs(n), d))

\* n2, n5 factors 2, 5 moved out of n and d2, d5 out of d, into the exponents.
RShift(n, d, e, f, n2, n5, d2, d5) ==
    RReduce(n \div (IPow(2, n2) * IPow(5, n5)), d \div (IPow(2, d2) * IPow(5, d5)),
            e + n2 - d2, f + n5 - d5)
\* The normal form of (n/d) * 2^e * 5^f for n # 0, d > 0.
RNormal(n, d, e, f) ==
    IF n % 2 # 0 /\ n % 5 # 0 /\ d % 2 # 0 /\ d % 5 # 0 THEN RReduce(n, d, e, f)
    ELSE RShift(n, d, e, f, Cnt(IAbs(n), 2), Cnt(IAbs(n), 5), Cnt(d, 2), Cnt(d, 5))
RNormSigned(s, n0, d0, e, f) == RNormal(s * n0, s * d0, e, f)
RMake(n0, d0, e, f) ==
    IF n0 = 0 THEN [n |-> 0, d |-> 1, e |-> 0, f |-> 0]
    ELSE RNormSigned(IF d0 < 0 THEN -1 ELSE 1, n0, d0, e, f)

\* The normal form of (n0/d0) * 10^e0, d0 # 0.
RNorm(n0, d0, e0) == RMake(n0, d0, e0, e0)

RInt(i) == RNorm(i, 1, 0)
RFrac(i, j) == RNorm(i, j, 0)
RZero == RInt(0)

RMul(a, b) ==
    IF a.n = 0 \/ b.n = 0 THEN RZero
    ELSE RReduce(a.n * b.n, a.d * b.d, a.e + b.e, a.f + b.f)
RNeg(a) == [a EXCEPT !.n = -a.n]
\* a + b with both brought to the exponents e, f (the smaller of each).
RAddAt(a, b, e, f) ==
    RMake(a.n * IPow(2, a.e - e) * IPow(5, a.f - f) * b.d
             + b.n * IPow(2, b.e - e) * IPow(5, b.f - f) * a.d,
          a.d * b.d, e, f)
RAdd(a, b) ==
    IF a.n = 0 THEN b
    ELSE IF b.n = 0 THEN a
    ELSE RAddAt(a, b, IF a.e < b.e THEN a.e ELSE b.e, IF a.f < b.f THEN a.f ELSE b.f)
RSub(a, b) == RAdd(a, RNeg(b))
RInv(a) ==
    IF a.n < 0 THEN [n |-> -a.d, d |-> -a.n, e |-> -a.e, f |-> -a.f]
    ELSE [n |-> a.d, d |-> a.n, e |-> -a.e, f |-> -a.f]
RDiv(a, b) == RMul(a, RInv(b))
RSign(a) == IF a.n > 0 THEN 1 ELSE IF a.n < 0 THEN -1 ELSE 0
RLess(a, b) == RSign(RSub(a, b)) < 0
RLeq(a, b) == RSign(RSub(a, b)) <= 0
RAbs(a) == [a EXCEPT !.n = IAbs(a.n)]

RECURSIVE RPow(_, _)
RPow(a, k) == IF k = 0 THEN RInt(1) ELSE RMul(a, RPow(a, k - 1))

(***************************************************************************)
(* Numbers: [k, pi, t].  k = "fin": the value pi^pi * SUM t[i].c *         *)
(* sqrt(t[i].rad), t sorted by strictly increasing squarefree radicand,    *)
(* every coefficient non-zero (so equal values are equal records);         *)
(* k = "inf": an infinity; k = "nan": NaN.                                 *)
(***************************************************************************)
NaN == [k |-> "nan", pi |-> 0, t |-> << >>]
Inf == [k |-> "inf", pi |-> 0, t |-> << >>]
Zero == [k |-> "fin", pi |-> 0, t |-> << >>]
Fin(p, t) == IF t = << >> THEN Zero ELSE [k |-> "fin", pi |-> p, t |-> t]
Num(r) == IF r.n = 0 THEN Zero ELSE Fin(0, << [rad |-> 1, c |-> r] >>)
IsFinite(x) == x.k = "fin"
IsZero(x) == x = Zero
IsRational(x) == x.k = "fin" /\ x.pi = 0 /\ (x.t = << >> \/ (Len(x.t) = 1 /\ x.t[1].rad = 1))
RatOf(x) == IF x.t = << >> THEN RZero ELSE x.t[1].c

\* t with the term [rad, c] added, keeping the normal form.
MergeHead(t, rad, s) ==
    IF s.n = 0 THEN Tail(t) ELSE << [rad |-> rad, c |-> s] >> \o Tail(t)

RECURSIVE AddTerm(_, _)
AddTerm(t, m) ==
    IF m.c.n = 0 THEN t
    ELSE IF t = << >> THEN << m >>
    ELSE IF Head(t).rad = m.rad THEN MergeHead(t, m.rad, RAdd(Head(t).c, m.c))
    ELSE IF Head(t).rad > m.rad THEN << m >> \o t
    ELSE << Head(t) >> \o AddTerm(Tail(t), m)

RECURSIVE AddTerms(_, _)
AddTerms(t, u) == IF u = << >> THEN t ELSE AddTerms(AddTerm(t, Head(u)), Tail(u))

\* sqrt(a) * sqrt(b) for squarefree a, b is g * sqrt((a/g)*(b/g)), g = gcd(a,b).
TermMulBy(x, y, g) ==
    [rad |-> (x.rad \div g) * (y.rad \div g), c |-> RMul(RMul(x.c, y.c), RInt(g))]
TermMul(x, y) == TermMulBy(x, y, Gcd(x.rad, y.rad))

RECURSIVE TermsMul1(_, _)
TermsMul1(x, u) ==
    IF u = << >> THEN << >> ELSE AddTerm(TermsMul1(x, Tail(u)), TermMul(x, Head(u)))

RECURSIVE TermsMul(_, _)
TermsMul(t, u) ==
    IF t = << >> THEN << >> ELSE AddTerms(TermsMul(Tail(t), u), TermsMul1(Head(t), u))

\* JavaScript x * y.
NMul(x, y) ==
    CASE x.k = "nan" \/ y.k = "nan" -> NaN
      [] x.k = "inf" -> IF IsZero(y) THEN NaN ELSE Inf
      [] y.k = "inf" -> IF IsZero(x) THEN NaN ELSE Inf
      [] OTHER -> IF IsZero(x) \/ IsZero(y) THEN Zero
                  ELSE Fin(x.pi + y.pi, TermsMul(x.t, y.t))

RECURSIVE TermsNeg(_)
TermsNeg(t) ==
    IF t = << >> THEN << >>
    ELSE << [rad |-> Head(t).rad, c |-> RNeg(Head(t).c)] >> \o TermsNeg(Tail(t))
NNeg(x) == IF x.k = "fin" THEN [x EXCEPT !.t = TermsNeg(x.t)] ELSE x

\* JavaScript x + y, for the sums the component forms: both operands finite
\* with the same power of pi, or one of them NaN.
NAdd(x, y) ==
    CASE x.k = "nan" \/ y.k = "nan" -> NaN
      [] x.k = "fin" /\ y.k = "fin" /\ (IsZero(x) \/ IsZero(y) \/ x.pi = y.pi) ->
            Fin(IF IsZero(x) THEN y.pi ELSE x.pi, AddTerms(x.t, y.t))
NSub(x, y) == NAdd(x, NNeg(y))

\* JavaScript x / y, for the quotients the component forms: the divisor is
\* zero, non-finite, or a single term c * sqrt(rad) * pi^p.
NDiv(x, y) ==
    CASE x.k = "nan" \/ y.k = "nan" -> NaN
      [] y.k = "inf" -> IF x.k = "inf" THEN NaN ELSE Zero
      [] IsZero(y) -> IF IsZero(x) THEN NaN ELSE Inf
      [] x.k = "inf" -> Inf
      [] Len(y.t) = 1 ->
            NMul(x, Fin(-y.pi, << [rad |-> y.t[1].rad,
                                   c |-> RInv(RMul(y.t[1].c, RInt(y.t[1].rad)))] >>))

\* Math.PI
PI == Fin(1, << [rad |-> 1, c |-> RInt(1)] >>)

\* The largest s with s*s dividing n (n > 0), searched from i upward.
RECURSIVE SquarePart(_, _)
SquarePart(n, i) ==
    IF i * i > n THEN 1
    ELSE IF n % (i * i) = 0 THEN i * SquarePart(n \div (i * i), i)
    ELSE SquarePart(n, i + 1)

\* Math.sqrt of a positive rational, as one term: m is n * d times the odd
\* powers of 2 and 5, s its largest square factor.
SqrtOf(a, m, s) ==
    [rad |-> m \div (s * s),
     c |-> RMake(s, a.d, (a.e - (a.e % 2)) \div 2, (a.f - (a.f % 2)) \div 2)]
SqrtRadicand(a, m) == SqrtOf(a, m, SquarePart(m, 2))
SqrtTerm(a) ==
    SqrtRadicand(a, a.n * a.d * (IF a.e % 2 = 1 THEN 2 ELSE 1)
                              * (IF a.f % 2 = 1 THEN 5 ELSE 1))

\* Math.pow(a, 1.5): NaN for a negative base, a * sqrt(a) otherwise.
Pow15(a) ==
    IF a.n < 0 THEN NaN
    ELSE IF a.n = 0 THEN Zero
    ELSE NMul(Num(a), Fin(0, << SqrtTerm(a) >>))

(***************************************************************************)
(* The component's state.  hooks holds the useState values (unit           *)
(* selections, loads, section type, dimensions, ordinate) as entered;      *)
(* sectionProps and Q_point are the values held by the two useMemo cells,  *)
(* sectionPropsDeps and Q_pointDeps the dependency arrays they were        *)
(* computed for.                                                           *)
(***************************************************************************)
VARIABLES hooks, sectionProps, sectionPropsDeps, Q_point, Q_pointDeps

vars == << hooks, sectionProps, sectionPropsDeps, Q_point, Q_pointDeps >>

SectionTypes == {"rectangle", "circle", "hollowCircle", "iBeam"}
ForceUnits == {"N", "kN"}
DistanceUnits == {"m", "mm"}
PressureUnits == {"Pa", "MPa"}

\* useState initial values.
InitialHooks ==
    [ forceUnit |-> "N", distanceUnit |-> "m", pressureUnit |-> "Pa",
      beamLength |-> RInt(1), force |-> RInt(1000), moment |-> RInt(1000),
      torque |-> RInt(1000), shearForce |-> RInt(500),
      sectionType |-> "rectangle",
      rectWidth |-> RFrac(5, 100), rectHeight |-> RFrac(1, 10),
      circleDiameter |-> RFrac(8, 100),
      hollowOuter |-> RFrac(8, 100), hollowInner |-> RFrac(4, 100),
      iBeamDepth |-> RFrac(2, 10), iBeamFlangeWidth |-> RFrac(1, 10),
      iBeamFlangeThick |-> RFrac(2, 100), iBeamWebThick |-> RFrac(1, 100),
      pointY |-> RInt(0) ]

\* Conversion factors (to SI).
forceFactor(forceUnit) == IF forceUnit = "kN" THEN RInt(1000) ELSE RInt(1)
\* distanceFactor converting mm with 0.01.
distanceFactorCentimetre(distanceUnit) ==
    IF distanceUnit = "mm" THEN RFrac(1, 100) ELSE RInt(1)

distanceFactor(distanceUnit) == IF distanceUnit = "mm" THEN RFrac(1, 1000) ELSE RInt(1)
pressureFactor(pressureUnit) == IF pressureUnit = "MPa" THEN RInt(1000000) ELSE RInt(1)

\* The input values h (a value of hooks) converted to SI.
SI(h) ==
    LET ff == forceFactor(h.forceUnit)
        df == distanceFactor(h.distanceUnit)
    IN  [ beamLengthSI |-> RMul(h.beamLength, df),
          forceSI |-> RMul(h.force, ff),
          momentSI |-> RMul(RMul(h.moment, ff), df),
          torqueSI |-> RMul(RMul(h.torque, ff), df),
          shearForceSI |-> RMul(h.shearForce, ff),
          rectWidthSI |-> RMul(h.rectWidth, df),
          rectHeightSI |-> RMul(h.rectHeight, df),
          circleDiameterSI |-> RMul(h.circleDiameter, df),
          hollowOuterSI |-> RMul(h.hollowOuter, df),
          hollowInnerSI |-> RMul(h.hollowInner, df),
          iBeamDepthSI |-> RMul(h.iBeamDepth, df),
          iBeamFlangeWidthSI |-> RMul(h.iBeamFlangeWidth, df),
          iBeamFlangeThickSI |-> RMul(h.iBeamFlangeThick, df),
          iBeamWebThickSI |-> RMul(h.iBeamWebThick, df),
          pointYSI |-> RMul(h.pointY, df) ]

Props(area, inertia, polarInertia, outerRadius, shearThickness) ==
    [ area |-> area, inertia |-> inertia, polarInertia |-> polarInertia,
      outerRadius |-> outerRadius, shearThickness |-> shearThickness ]

\* RectangleProps with Math.pow(rectHeightSI, 2) in the inertia.
RectanglePropsSquared(b, h) ==
    Props(Num(RMul(b, h)),
          Num(RDiv(RMul(b, RPow(h, 2)), RInt(12))),
          Num(RDiv(RMul(b, RPow(h, 3)), RInt(3))),
          Num(RDiv(h, RInt(2))),
          Num(b))

\* sectionProps, branch sectionType === "rectangle".
RectangleProps(b, h) ==
    Props(Num(RMul(b, h)),
          Num(RDiv(RMul(b, RPow(h, 3)), RInt(12))),
          Num(RDiv(RMul(b, RPow(h, 3)), RInt(3))),
          Num(RDiv(h, RInt(2))),
          Num(b))

\* CircleProps taking the diameter for the radius.
CirclePropsDiameterAsRadius(d) ==
    Props(NMul(PI, Num(RPow(d, 2))),
          NDiv(NMul(PI, Num(RPow(d, 4))), Num(RInt(4))),
          NDiv(NMul(PI, Num(RPow(d, 4))), Num(RInt(2))),
          Num(d),
          Num(d))

\* CircleProps leaving shearThickness at its initial 0.
CirclePropsNoThickness(d) ==
    Props(NMul(PI, Num(RPow(RDiv(d, RInt(2)), 2))),
          NDiv(NMul(PI, Num(RPow(RDiv(d, RInt(2)), 4))), Num(RInt(4))),
          NDiv(NMul(PI, Num(RPow(RDiv(d, RInt(2)), 4))), Num(RInt(2))),
          Num(RDiv(d, RInt(2))),
          Zero)

\* sectionProps, branch sectionType === "circle".
CircleProps(d) ==
    LET r == RDiv(d, RInt(2))
    IN  Props(NMul(PI, Num(RPow(r, 2))),
              NDiv(NMul(PI, Num(RPow(r, 4))), Num(RInt(4))),
              NDiv(NMul(PI, Num(RPow(r, 4))), Num(RInt(2))),
              Num(r),
              Num(d))

\* HollowCircleProps with the two radii exchanged in the differences.
HollowCirclePropsExchanged(R_o, R_i) ==
    IF RLeq(R_o, R_i) THEN Props(Zero, Zero, Zero, Num(R_o), Zero)
    ELSE Props(NMul(PI, Num(RSub(RPow(R_i, 2), RPow(R_o, 2)))),
               NMul(NDiv(PI, Num(RInt(4))), Num(RSub(RPow(R_i, 4), RPow(R_o, 4)))),
               NMul(NDiv(PI, Num(RInt(2))), Num(RSub(RPow(R_i, 4), RPow(R_o, 4)))),
               Num(R_o),
               Num(RSub(R_o, R_i)))

\* HollowCircleProps without the R_i >= R_o fallback.
HollowCirclePropsNoFallback(R_o, R_i) ==
    Props(NMul(PI, Num(RSub(RPow(R_o, 2), RPow(R_i, 2)))),
          NMul(NDiv(PI, Num(RInt(4))), Num(RSub(RPow(R_o, 4), RPow(R_i, 4)))),
          NMul(NDiv(PI, Num(RInt(2))), Num(RSub(RPow(R_o, 4), RPow(R_i, 4)))),
          Num(R_o),
          Num(RSub(R_o, R_i)))

\* sectionProps, branch sectionType === "hollowCircle".
HollowCircleProps(R_o, R_i) ==
    IF RLeq(R_o, R_i)
    THEN Props(Zero, Zero, Zero, Num(R_o), Zero)
    ELSE Props(NMul(PI, Num(RSub(RPow(R_o, 2), RPow(R_i, 2)))),
               NMul(NDiv(PI, Num(RInt(4))), Num(RSub(RPow(R_o, 4), RPow(R_i, 4)))),
               NMul(NDiv(PI, Num(RInt(2))), Num(RSub(RPow(R_o, 4), RPow(R_i, 4)))),
               Num(R_o),
               Num(RSub(R_o, R_i)))

\* IBeamProps with the web counted over the full depth in the area.
IBeamPropsFullDepthWeb(h, bf, tf, tw) ==
    LET web     == RSub(h, RMul(RInt(2), tf))
        inertia == RDiv(RSub(RMul(bf, RPow(h, 3)),
                             RMul(RSub(bf, tw), RPow(web, 3))), RInt(12))
    IN  Props(Num(RAdd(RMul(RMul(RInt(2), bf), tf), RMul(tw, h))),
              Num(inertia),
              Num(inertia),
              Num(RDiv(h, RInt(2))),
              Num(tw))

\* sectionProps, branch sectionType === "iBeam".
IBeamProps(h, bf, tf, tw) ==
    LET web     == RSub(h, RMul(RInt(2), tf))
        inertia == RDiv(RSub(RMul(bf, RPow(h, 3)),
                             RMul(RSub(bf, tw), RPow(web, 3))), RInt(12))
    IN  Props(Num(RAdd(RMul(RMul(RInt(2), bf), tf), RMul(tw, web))),
              Num(inertia),
              Num(inertia),
              Num(RDiv(h, RInt(2))),
              Num(tw))

\* The function given to the first useMemo, in a render with SI values si.
sectionPropsCalc(sectionType, si) ==
    CASE sectionType = "rectangle" -> RectangleProps(si.rectWidthSI, si.rectHeightSI)
      [] sectionType = "circle" -> CircleProps(si.circleDiameterSI)
      [] sectionType = "hollowCircle" ->
            HollowCircleProps(si.hollowOuterSI, si.hollowInnerSI)
      [] sectionType = "iBeam" ->
            IBeamProps(si.iBeamDepthSI, si.iBeamFlangeWidthSI,
                       si.iBeamFlangeThickSI, si.iBeamWebThickSI)
      [] OTHER -> Props(Zero, Zero, Zero, Zero, Zero)

\* The first useMemo's dependency array.
sectionPropsDepsNow(sectionType, si) ==
    << sectionType, si.rectWidthSI, si.rectHeightSI, si.circleDiameterSI,
       si.hollowOuterSI, si.hollowInnerSI, si.iBeamDepthSI,
       si.iBeamFlangeWidthSI, si.iBeamFlangeThickSI, si.iBeamWebThickSI >>

\* RectangleQ without the |y| > a test.
RectangleQNoRangeTest(b, h, y) ==
    Num(RMul(RDiv(b, RInt(2)), RSub(RPow(RDiv(h, RInt(2)), 2), RPow(y, 2))))

\* RectangleQ taking the full height for the half-height a.
RectangleQFullHeight(b, h, y) ==
    IF RLess(h, RAbs(y)) THEN Zero
    ELSE Num(RMul(RDiv(b, RInt(2)), RSub(RPow(h, 2), RPow(y, 2))))

\* RectangleQ comparing the signed ordinate instead of |y|.
RectangleQSigned(b, h, y) ==
    LET a == RDiv(h, RInt(2))
    IN  IF RLess(a, y) THEN Zero
        ELSE Num(RMul(RDiv(b, RInt(2)), RSub(RPow(a, 2), RPow(y, 2))))

\* Q_point, branch sectionType === "rectangle".
RectangleQ(b, h, y) ==
    LET a == RDiv(h, RInt(2))
    IN  IF RLess(a, RAbs(y)) THEN Zero
        ELSE Num(RMul(RDiv(b, RInt(2)), RSub(RPow(a, 2), RPow(y, 2))))

\* CircleQ without the |y| > r test.
CircleQNoRangeTest(d, y) ==
    NMul(Num(RFrac(2, 3)),
         Pow15(RSub(RMul(RDiv(d, RInt(2)), RDiv(d, RInt(2))), RMul(y, y))))

\* CircleQ taking the diameter for the radius.
CircleQDiameterAsRadius(d, y) ==
    IF RLess(d, RAbs(y)) THEN Zero
    ELSE NMul(Num(RFrac(2, 3)), Pow15(RSub(RMul(d, d), RMul(y, y))))

\* CircleQ with the factor 1/3 for 2/3.
CircleQThird(d, y) ==
    LET r == RDiv(d, RInt(2))
    IN  IF RLess(r, RAbs(y)) THEN Zero
        ELSE NMul(Num(RFrac(1, 3)), Pow15(RSub(RMul(r, r), RMul(y, y))))

\* Q_point, branch sectionType === "circle".
CircleQ(d, y) ==
    LET r == RDiv(d, RInt(2))
    IN  IF RLess(r, RAbs(y)) THEN Zero
        ELSE NMul(Num(RFrac(2, 3)), Pow15(RSub(RMul(r, r), RMul(y, y))))

\* HollowCircleQ subtracting the outer from the inner term.
HollowCircleQInnerMinusOuter(R_o, R_i, y) ==
    IF RLess(R_o, RAbs(y)) THEN Zero
    ELSE IF RLeq(RAbs(y), R_i)
    THEN NMul(Num(RFrac(2, 3)),
              NSub(Pow15(RSub(RMul(R_i, R_i), RMul(y, y))),
                   Pow15(RSub(RMul(R_o, R_o), RMul(y, y)))))
    ELSE NMul(Num(RFrac(2, 3)), Pow15(RSub(RMul(R_o, R_o), RMul(y, y))))

\* HollowCircleQ testing |y| <= R_i before |y| > R_o.
HollowCircleQInnerFirst(R_o, R_i, y) ==
    IF RLeq(RAbs(y), R_i)
    THEN NMul(Num(RFrac(2, 3)),
              NSub(Pow15(RSub(RMul(R_o, R_o), RMul(y, y))),
                   Pow15(RSub(RMul(R_i, R_i), RMul(y, y)))))
    ELSE IF RLess(R_o, RAbs(y)) THEN Zero
    ELSE NMul(Num(RFrac(2, 3)), Pow15(RSub(RMul(R_o, R_o), RMul(y, y))))

\* Q_point, branch sectionType === "hollowCircle".
HollowCircleQ(R_o, R_i, y) ==
    IF RLess(R_o, RAbs(y)) THEN Zero
    ELSE IF RLeq(RAbs(y), R_i)
    THEN NMul(Num(RFrac(2, 3)),
              NSub(Pow15(RSub(RMul(R_o, R_o), RMul(y, y))),
                   Pow15(RSub(RMul(R_i, R_i), RMul(y, y)))))
    ELSE NMul(Num(RFrac(2, 3)), Pow15(RSub(RMul(R_o, R_o), RMul(y, y))))

\* IBeamQ with the web centroid taken from the signed ordinate.
IBeamQSignedCentroid(h, bf, tf, tw, y) ==
    LET yAbs      == RAbs(y)
        halfDepth == RDiv(h, RInt(2))
    IN  IF RLess(halfDepth, yAbs) THEN Zero
        ELSE IF RLeq(yAbs, RSub(halfDepth, tf))
        THEN LET Q_flange    == RMul(bf, tf)
                 webArea     == RMul(tw, RSub(RSub(halfDepth, tf), yAbs))
                 webCentroid == RDiv(RAdd(RSub(halfDepth, tf), y), RInt(2))
             IN  Num(RAdd(Q_flange, RMul(webArea, webCentroid)))
        ELSE LET flangeHeightAbove == RSub(halfDepth, yAbs)
             IN  Num(RMul(RMul(bf, flangeHeightAbove),
                          RDiv(flangeHeightAbove, RInt(2))))

\* IBeamQ with the web centroid taken as (halfDepth - tf - yAbs) / 2.
IBeamQWebCentroid(h, bf, tf, tw, y) ==
    LET yAbs      == RAbs(y)
        halfDepth == RDiv(h, RInt(2))
    IN  IF RLess(halfDepth, yAbs) THEN Zero
        ELSE IF RLeq(yAbs, RSub(halfDepth, tf))
        THEN LET Q_flange    == RMul(bf, tf)
                 webArea     == RMul(tw, RSub(RSub(halfDepth, tf), yAbs))
                 webCentroid == RDiv(RSub(RSub(halfDepth, tf), yAbs), RInt(2))
             IN  Num(RAdd(Q_flange, RMul(webArea, webCentroid)))
        ELSE LET flangeHeightAbove == RSub(halfDepth, yAbs)
             IN  Num(RMul(RMul(bf, flangeHeightAbove),
                          RDiv(flangeHeightAbove, RInt(2))))

\* Q_point, branch sectionType === "iBeam".
IBeamQ(h, bf, tf, tw, y) ==
    LET yAbs      == RAbs(y)
        halfDepth == RDiv(h, RInt(2))
    IN  IF RLess(halfDepth, yAbs) THEN Zero
        ELSE IF RLeq(yAbs, RSub(halfDepth, tf))
        THEN LET Q_flange    == RMul(bf, tf)
                 webArea     == RMul(tw, RSub(RSub(halfDepth, tf), yAbs))
                 webCentroid == RDiv(RAdd(RSub(halfDepth, tf), yAbs), RInt(2))
             IN  Num(RAdd(Q_flange, RMul(webArea, webCentroid)))
        ELSE LET flangeHeightAbove == RSub(halfDepth, yAbs)
             IN  Num(RMul(RMul(bf, flangeHeightAbove),
                          RDiv(flangeHeightAbove, RInt(2))))

\* Q_pointCalc with the rectangle's height read from the I-beam depth.
Q_pointCalcSharedDepth(sectionType, si) ==
    CASE sectionType = "rectangle" ->
            RectangleQ(si.rectWidthSI, si.iBeamDepthSI, si.pointYSI)
      [] sectionType = "circle" -> CircleQ(si.circleDiameterSI, si.pointYSI)
      [] sectionType = "hollowCircle" ->
            HollowCircleQ(si.hollowOuterSI, si.hollowInnerSI, si.pointYSI)
      [] sectionType = "iBeam" ->
            IBeamQ(si.iBeamDepthSI, si.iBeamFlangeWidthSI, si.iBeamFlangeThickSI,
                   si.iBeamWebThickSI, si.pointYSI)
      [] OTHER -> Zero

\* The function given to the second useMemo, in a render with SI values si.
Q_pointCalc(sectionType, si) ==
    CASE sectionType = "rectangle" ->
            RectangleQ(si.rectWidthSI, si.rectHeightSI, si.pointYSI)
      [] sectionType = "circle" -> CircleQ(si.circleDiameterSI, si.pointYSI)
      [] sectionType = "hollowCircle" ->
            HollowCircleQ(si.hollowOuterSI, si.hollowInnerSI, si.pointYSI)
      [] sectionType = "iBeam" ->
            IBeamQ(si.iBeamDepthSI, si.iBeamFlangeWidthSI, si.iBeamFlangeThickSI,
                   si.iBeamWebThickSI, si.pointYSI)
      [] OTHER -> Zero

\* The second dependency array without the ordinate.
Q_pointDepsWithoutOrdinate(sectionType, si) ==
    << sectionType, si.rectHeightSI, si.rectWidthSI,
       si.circleDiameterSI, si.hollowOuterSI, si.hollowInnerSI, si.iBeamDepthSI,
       si.iBeamFlangeThickSI, si.iBeamFlangeWidthSI, si.iBeamWebThickSI >>

\* The second useMemo's dependency array.
Q_pointDepsNow(sectionType, si) ==
    << sectionType, si.pointYSI, si.rectHeightSI, si.rectWidthSI,
       si.circleDiameterSI, si.hollowOuterSI, si.hollowInnerSI, si.iBeamDepthSI,
       si.iBeamFlangeThickSI, si.iBeamFlangeWidthSI, si.iBeamWebThickSI >>

\* TransverseShear dividing by the inertia alone.
TransverseShearNoThickness(shearForceSI, Q, inertia, shearThickness) ==
    NDiv(NMul(Num(shearForceSI), Q), inertia)

\* TransverseShear returning 0 for a zero denominator.
TransverseShearGuarded(shearForceSI, Q, inertia, shearThickness) ==
    IF IsZero(NMul(inertia, shearThickness)) THEN Zero
    ELSE NDiv(NMul(Num(shearForceSI), Q), NMul(inertia, shearThickness))

\* Stresses at the analysis point (SI), computed on every render from the
\* current inputs and the two memoised values.
AxialStress(forceSI, area) == NDiv(Num(forceSI), area)
\* BendingStress taking |y| as the torsional shear does.
BendingStressAbsolute(momentSI, pointYSI, inertia) ==
    NDiv(Num(RMul(momentSI, RAbs(pointYSI))), inertia)

BendingStress(momentSI, pointYSI, inertia) ==
    NDiv(Num(RMul(momentSI, pointYSI)), inertia)
TorsionalShear(torqueSI, pointYSI, polarInertia) ==
    NDiv(Num(RMul(torqueSI, RAbs(pointYSI))), polarInertia)
TransverseShear(shearForceSI, Q, inertia, shearThickness) ==
    NDiv(NMul(Num(shearForceSI), Q), NMul(inertia, shearThickness))

StressesOf(si, props, Q) ==
    [ axial |-> AxialStress(si.forceSI, props.area),
      bending |-> BendingStress(si.momentSI, si.pointYSI, props.inertia),
      torsionalShear |-> TorsionalShear(si.torqueSI, si.pointYSI, props.polarInertia),
      transverseShear |-> TransverseShear(si.shearForceSI, Q, props.inertia,
                                          props.shearThickness) ]
stressSI == StressesOf(SI(hooks), sectionProps, Q_point)

\* Stresses in the chosen pressure unit.
Display(stress, pf) ==
    [ axial |-> NDiv(stress.axial, pf), bending |-> NDiv(stress.bending, pf),
      torsionalShear |-> NDiv(stress.torsionalShear, pf),
      transverseShear |-> NDiv(stress.transverseShear, pf) ]
stressDisplay == Display(stressSI, Num(pressureFactor(hooks.pressureUnit)))

\* A render with hooks value h: each useMemo keeps its value when its
\* dependency array equals the one stored (prevDeps) and recomputes otherwise.
UseMemo(prev, prevDeps, deps, calc) == IF deps = prevDeps THEN prev ELSE calc

\* First render.
Init ==
    /\ hooks = InitialHooks
    /\ sectionPropsDeps = sectionPropsDepsNow(hooks.sectionType, SI(hooks))
    /\ sectionProps = sectionPropsCalc(hooks.sectionType, SI(hooks))
    /\ Q_pointDeps = Q_pointDepsNow(hooks.sectionType, SI(hooks))
    /\ Q_point = Q_pointCalc(hooks.sectionType, SI(hooks))

Render(h, si) ==
    /\ hooks' = h
    /\ sectionPropsDeps' = sectionPropsDepsNow(h.sectionType, si)
    /\ sectionProps' = UseMemo(sectionProps, sectionPropsDeps,
                               sectionPropsDepsNow(h.sectionType, si),
                               sectionPropsCalc(h.sectionType, si))
    /\ Q_pointDeps' = Q_pointDepsNow(h.sectionType, si)
    /\ Q_point' = UseMemo(Q_point, Q_pointDeps, Q_pointDepsNow(h.sectionType, si),
                          Q_pointCalc(h.sectionType, si))

Rerender(h) == Render(h, SI(h))

\* A state setter followed by the re-render it schedules.
SetState(field, value) == Rerender([hooks EXCEPT ![field] = value])

MaxLen == 3
MaxWidth == 2
MaxLoad == 0

\* Number(e.target.value) of the numeric fields: lengths and widths entered
\* in hundredths (-0.01, 0, 0.01, ...), loads in units.
LenValues == { RFrac(i, 100) : i \in -1 .. MaxLen }
WidthValues == { RFrac(i, 100) : i \in -1 .. MaxWidth }
LoadValues == { RInt(i) : i \in -1 .. MaxLoad }

MaxOrdinate == 11
MaxMetres == 8

\* Ordinates entered in hundredths up to and beyond the outer fibre of the
\* initial sections (0.04, 0.05, 0.08, 0.1).
OrdinateValues == { RFrac(i, 100) : i \in -1 .. MaxOrdinate }

\* Lengths entered in whole units (1, 2, ...), for sections metres thick.
MetreValues == { RInt(i) : i \in 1 .. MaxMetres }

\* onChange handlers.  The dimension fields of a variant are rendered, and
\* so can be edited, only while that variant is the selected section type.
SetForceUnit == \E v \in ForceUnits : SetState("forceUnit", v)
SetDistanceUnit == \E v \in DistanceUnits : SetState("distanceUnit", v)
SetPressureUnit == \E v \in PressureUnits : SetState("pressureUnit", v)
SetBeamLength == \E v \in LenValues : SetState("beamLength", v)
SetForce == \E v \in LoadValues : SetState("force", v)
SetMoment == \E v \in LoadValues : SetState("moment", v)
SetTorque == \E v \in LoadValues : SetState("torque", v)
SetShearForce == \E v \in LoadValues : SetState("shearForce", v)
SetSectionType(options) == \E v \in options : SetState("sectionType", v)
SetRectWidth ==
    hooks.sectionType = "rectangle" /\ \E v \in WidthValues : SetState("rectWidth", v)
SetRectHeight ==
    hooks.sectionType = "rectangle" /\ \E v \in LenValues : SetState("rectHeight", v)
SetCircleDiameter ==
    hooks.sectionType = "circle" /\ \E v \in LenValues : SetState("circleDiameter", v)
SetHollowOuter ==
    hooks.sectionType = "hollowCircle" /\ \E v \in LenValues : SetState("hollowOuter", v)
SetHollowInner ==
    hooks.sectionType = "hollowCircle" /\ \E v \in LenValues : SetState("hollowInner", v)
IBeamDepthChange(values) ==
    hooks.sectionType = "iBeam" /\ \E v \in values : SetState("iBeamDepth", v)
SetIBeamDepth == IBeamDepthChange(LenValues)
SetIBeamFlangeWidth ==
    hooks.sectionType = "iBeam" /\ \E v \in WidthValues : SetState("iBeamFlangeWidth", v)
IBeamFlangeThickChange(values) ==
    hooks.sectionType = "iBeam" /\ \E v \in values : SetState("iBeamFlangeThick", v)
SetIBeamFlangeThick == IBeamFlangeThickChange(LenValues)
SetIBeamWebThick ==
    hooks.sectionType = "iBeam" /\ \E v \in WidthValues : SetState("iBeamWebThick", v)
PointYChange(values) == \E v \in values : SetState("pointY", v)
SetPointY == PointYChange(LenValues)

Next ==
    \/ SetForceUnit \/ SetDistanceUnit \/ SetPressureUnit
    \/ SetBeamLength \/ SetForce \/ SetMoment \/ SetTorque \/ SetShearForce
    \/ SetSectionType(SectionTypes)
    \/ SetRectWidth \/ SetRectHeight
    \/ SetCircleDiameter
    \/ SetHollowOuter \/ SetHollowInner
    \/ SetIBeamDepth \/ SetIBeamFlangeWidth \/ SetIBeamFlangeThick \/ SetIBeamWebThick
    \/ SetPointY

Spec == Init /\ [][Next]_vars

\* The rectangle form: the geometry fields shown while "rectangle" is selected.
NextRectangle ==
    \/ SetDistanceUnit
    \/ SetRectWidth \/ SetRectHeight \/ SetPointY

SpecRectangle == Init /\ [][NextRectangle]_vars

\* The two circular forms.
NextCircular ==
    \/ SetSectionType({"circle", "hollowCircle"}) \/ SetDistanceUnit
    \/ SetCircleDiameter
    \/ SetHollowOuter \/ SetHollowInner
    \/ SetPointY

SpecCircular == Init /\ [][NextCircular]_vars

\* The I-beam form.
NextIBeam ==
    \/ SetSectionType({"iBeam"})
    \/ SetIBeamDepth \/ SetIBeamFlangeWidth \/ SetIBeamFlangeThick \/ SetIBeamWebThick
    \/ SetPointY

SpecIBeam == Init /\ [][NextIBeam]_vars

\* The I-beam form with the depth, the flange thickness and the ordinate
\* entered in whole metres (the other fields keep their initial values).
NextIBeamThick ==
    \/ SetSectionType({"iBeam"})
    \/ IBeamDepthChange(MetreValues) \/ IBeamFlangeThickChange(MetreValues)
    \/ PointYChange(MetreValues)

SpecIBeamThick == Init /\ [][NextIBeamThick]_vars

\* The loads, with the default rectangle and a solid circle of any diameter.
NextStress ==
    \/ SetSectionType({"circle"}) \/ SetCircleDiameter \/ SetPointY
    \/ SetForce \/ SetMoment \/ SetTorque \/ SetShearForce

SpecStress == Init /\ [][NextStress]_vars

\* The hollow-circle form with the axial and the shear force.
NextHollow ==
    \/ SetSectionType({"hollowCircle"})
    \/ SetHollowOuter \/ SetHollowInner \/ SetPointY
    \/ SetForce \/ SetShearForce

SpecHollow == Init /\ [][NextHollow]_vars

\* The heights and radii of the three solid and hollow forms, and the ordinate.
NextBoundary ==
    \/ SetSectionType({"rectangle", "circle", "hollowCircle"})
    \/ SetRectHeight \/ SetCircleDiameter
    \/ SetHollowOuter \/ SetHollowInner
    \/ SetPointY

SpecBoundary == Init /\ [][NextBoundary]_vars

\* The four initial sections with the ordinate inside and outside them
\* and the three loads the ordinate enters.
NextOutOfRange ==
    \/ SetSectionType(SectionTypes)
    \/ PointYChange(OrdinateValues)
    \/ SetMoment \/ SetTorque \/ SetShearForce

SpecOutOfRange == Init /\ [][NextOutOfRange]_vars

\* The section type select, the beam length and one dimension of two
\* variants, so that dimensions of variants no longer selected differ from
\* their initial values.
NextFrame ==
    \/ SetSectionType(SectionTypes)
    \/ SetBeamLength
    \/ SetRectHeight
    \/ SetCircleDiameter

SpecFrame == Init /\ [][NextFrame]_vars

\* The three unit selects with the section type, the bending moment and the
\* ordinate.
NextUnits ==
    \/ SetForceUnit \/ SetDistanceUnit \/ SetPressureUnit
    \/ SetSectionType(SectionTypes)
    \/ SetMoment
    \/ SetPointY

SpecUnits == Init /\ [][NextUnits]_vars

\* Valid and invalid dimensions of the hollow circle and the I-beam with an
\* axial force and the ordinate.
NextValid ==
    \/ SetSectionType(SectionTypes)
    \/ SetHollowInner
    \/ SetIBeamWebThick
    \/ SetForce
    \/ SetPointY

SpecValid == Init /\ [][NextValid]_vars

\* The three forms the earlier versions have, with the distance unit, one
\* dimension of each and the ordinate.
NextVersions ==
    \/ SetSectionType({"rectangle", "circle", "hollowCircle"})
    \/ SetDistanceUnit
    \/ SetRectHeight
    \/ SetCircleDiameter
    \/ SetHollowInner
    \/ SetPointY

SpecVersions == Init /\ [][NextVersions]_vars

\* Edits of every kind in any order: section type, units, a load, a
\* dimension of two forms, the ordinate.
NextEdits ==
    \/ SetSectionType(SectionTypes)
    \/ SetForceUnit \/ SetDistanceUnit
    \/ SetShearForce
    \/ SetRectHeight \/ SetIBeamWebThick
    \/ SetPointY

SpecEdits == Init /\ [][NextEdits]_vars

\* The four forms with the hollow circle's inner radius and the I-beam's
\* widths and flange thickness.
NextSections ==
    \/ SetSectionType(SectionTypes)
    \/ SetHollowInner
    \/ SetIBeamFlangeWidth \/ SetIBeamFlangeThick \/ SetIBeamWebThick

SpecSections == Init /\ [][NextSections]_vars

\* The four forms with the hollow circle's radii and the ordinate up to the
\* outer fibre.
NextOuterFibre ==
    \/ SetSectionType(SectionTypes)
    \/ SetHollowOuter \/ SetHollowInner
    \/ PointYChange(OrdinateValues)

SpecOuterFibre == Init /\ [][NextOuterFibre]_vars

(***************************************************************************)
(* Properties.  si is the current render's SI values; the expected values  *)
(* are written with the divisions cleared (12 * inertia = b * h^3).        *)
(***************************************************************************)
si == SI(hooks)
Times(i, x) == NMul(Num(RInt(i)), x)
RSq(a) == RMul(a, a)
RCube(a) == RMul(a, RMul(a, a))
RTwice(a) == RAdd(a, a)
\* x is a real number >= 0 (x is zero or one positive term).
NonNegative(x) == x = Zero \/ (x.k = "fin" /\ Len(x.t) = 1 /\ x.t[1].c.n > 0)

\* C1: for the rectangle, area = b*h, inertia = b*h^3/12, polarInertia =
\* b*h^3/3, outerRadius = h/2 and shearThickness = b, for every b and h;
\* b = 0.05, h = 0.1 gives area 0.005 and outerRadius 0.05.
C1_RectangleProps ==
    hooks.sectionType = "rectangle" =>
        /\ sectionProps.area = Num(RMul(si.rectWidthSI, si.rectHeightSI))
        /\ Times(12, sectionProps.inertia)
              = Num(RMul(si.rectWidthSI, RCube(si.rectHeightSI)))
        /\ Times(3, sectionProps.polarInertia)
              = Num(RMul(si.rectWidthSI, RCube(si.rectHeightSI)))
        /\ Times(2, sectionProps.outerRadius) = Num(si.rectHeightSI)
        /\ sectionProps.shearThickness = Num(si.rectWidthSI)
        /\ (si.rectWidthSI = RFrac(5, 100) /\ si.rectHeightSI = RFrac(1, 10)
              => /\ sectionProps.area = Num(RFrac(5, 1000))
                 /\ sectionProps.outerRadius = Num(RFrac(5, 100)))

C1_Witness ==
    /\ hooks.sectionType = "rectangle"
    /\ hooks.distanceUnit = "mm"
    /\ hooks.rectWidth = RFrac(2, 100) /\ hooks.rectHeight = RFrac(3, 100)
    /\ sectionProps.area = Num(RNorm(6, 1, -10))
    /\ sectionProps.inertia = Num(RNorm(54, 12, -20))

\* C2: for the I-beam, area = 2*bf*tf + tw*(h - 2*tf), inertia =
\* [bf*h^3 - (bf - tw)*(h - 2*tf)^3]/12, polarInertia = inertia, outerRadius =
\* h/2 and shearThickness = tw; h=0.2, bf=0.1, tf=0.02, tw=0.01 gives area 0.0056.
C2_IBeamProps ==
    hooks.sectionType = "iBeam" =>
        LET h  == si.iBeamDepthSI
            bf == si.iBeamFlangeWidthSI
            tf == si.iBeamFlangeThickSI
            tw == si.iBeamWebThickSI
        IN  /\ sectionProps.area
                  = Num(RSub(RAdd(RTwice(RMul(bf, tf)), RMul(tw, h)),
                             RTwice(RMul(tw, tf))))
            /\ Times(12, sectionProps.inertia)
                  = Num(RSub(RMul(bf, RCube(h)),
                             RMul(RSub(bf, tw), RCube(RSub(h, RTwice(tf))))))
            /\ sectionProps.polarInertia = sectionProps.inertia
            /\ Times(2, sectionProps.outerRadius) = Num(h)
            /\ sectionProps.shearThickness = Num(tw)
            /\ (h = RFrac(2, 10) /\ bf = RFrac(1, 10) /\ tf = RFrac(2, 100)
                    /\ tw = RFrac(1, 100)
                  => sectionProps.area = Num(RFrac(56, 10000)))

C2_Witness ==
    /\ hooks.sectionType = "iBeam"
    /\ hooks.iBeamDepth = RFrac(3, 100) /\ hooks.iBeamFlangeWidth = RFrac(2, 100)
    /\ hooks.iBeamFlangeThick = RFrac(1, 100) /\ hooks.iBeamWebThick = RFrac(1, 100)
    /\ sectionProps.area = Num(RFrac(5, 10000))
    /\ sectionProps.inertia = Num(RNorm(53, 12, -8))

\* C3: for the solid circle of diameter d (r = d/2), area = pi*r^2, inertia =
\* pi*r^4/4, polarInertia = pi*r^4/2, outerRadius = r, shearThickness = d; for
\* the hollow circle with Ri < Ro, area = pi*(Ro^2 - Ri^2), inertia =
\* (pi/4)*(Ro^4 - Ri^4), polarInertia = (pi/2)*(Ro^4 - Ri^4), outerRadius = Ro,
\* shearThickness = Ro - Ri.
C3_CircleProps ==
    /\ hooks.sectionType = "circle" =>
          LET d == si.circleDiameterSI
          IN  /\ Times(4, sectionProps.area) = NMul(PI, Num(RSq(d)))
              /\ Times(64, sectionProps.inertia) = NMul(PI, Num(RSq(RSq(d))))
              /\ Times(32, sectionProps.polarInertia) = NMul(PI, Num(RSq(RSq(d))))
              /\ Times(2, sectionProps.outerRadius) = Num(d)
              /\ sectionProps.shearThickness = Num(d)
    /\ hooks.sectionType = "hollowCircle"
          /\ RLess(si.hollowInnerSI, si.hollowOuterSI) =>
          LET Ro == si.hollowOuterSI
              Ri == si.hollowInnerSI
              d2 == RMul(RSub(Ro, Ri), RAdd(Ro, Ri))
              d4 == RMul(d2, RAdd(RSq(Ro), RSq(Ri)))
          IN  /\ sectionProps.area = NMul(PI, Num(d2))
              /\ Times(4, sectionProps.inertia) = NMul(PI, Num(d4))
              /\ Times(2, sectionProps.polarInertia) = NMul(PI, Num(d4))
              /\ sectionProps.outerRadius = Num(Ro)
              /\ sectionProps.shearThickness = Num(RSub(Ro, Ri))

C3_Witness ==
    /\ hooks.sectionType = "hollowCircle"
    /\ hooks.hollowOuter = RFrac(3, 100) /\ hooks.hollowInner = RFrac(1, 100)
    /\ hooks.distanceUnit = "m"
    /\ sectionProps.area = NMul(PI, Num(RFrac(8, 10000)))
    /\ sectionProps.inertia = NMul(PI, Num(RNorm(20, 1, -8)))

\* C4: for the hollow circle with Ri >= Ro (equality included), area, inertia,
\* polarInertia and shearThickness are exactly 0 and outerRadius = Ro, an
\* ordinary (finite) result.
C4_DegenerateHollow ==
    hooks.sectionType = "hollowCircle" /\ RLeq(si.hollowOuterSI, si.hollowInnerSI) =>
        /\ sectionProps.area = Zero
        /\ sectionProps.inertia = Zero
        /\ sectionProps.polarInertia = Zero
        /\ sectionProps.shearThickness = Zero
        /\ sectionProps.outerRadius = Num(si.hollowOuterSI)

C4_Witness ==
    /\ hooks.sectionType = "hollowCircle"
    /\ hooks.hollowOuter = RFrac(2, 100) /\ hooks.hollowInner = RFrac(3, 100)
    /\ sectionProps.area = Zero
    /\ sectionProps.outerRadius = Num(si.hollowOuterSI)

\* C5: axial = axialForce/area, bending = bendingMoment*y/inertia,
\* torsionalShear = torque*|y|/polarInertia and transverseShear =
\* shearForce*Q/(inertia*shearThickness), unclamped, whenever the denominator
\* is non-zero; axialForce = 1000 and area = 0.005 give axial = 200000.
C5_StressFormulas ==
    /\ ~IsZero(sectionProps.area) =>
          NMul(stressSI.axial, sectionProps.area) = Num(si.forceSI)
    /\ ~IsZero(sectionProps.inertia) =>
          NMul(stressSI.bending, sectionProps.inertia)
             = Num(RMul(si.momentSI, si.pointYSI))
    /\ ~IsZero(sectionProps.polarInertia) =>
          NMul(stressSI.torsionalShear, sectionProps.polarInertia)
             = Num(RMul(si.torqueSI, RAbs(si.pointYSI)))
    /\ ~IsZero(sectionProps.inertia) /\ ~IsZero(sectionProps.shearThickness) =>
          NMul(NMul(stressSI.transverseShear, sectionProps.inertia),
               sectionProps.shearThickness)
             = NMul(Num(si.shearForceSI), Q_point)
    /\ (si.forceSI = RInt(1000) /\ sectionProps.area = Num(RFrac(5, 1000))
          => stressSI.axial = Num(RInt(200000)))

\* Solid circle d = 0.02, y = 0.03 (outside the section), unit loads:
\* bending = -0.03 / (pi * 0.01^4 / 4), transverse shear 0.
C5_Witness ==
    /\ hooks.sectionType = "circle" /\ hooks.circleDiameter = RFrac(2, 100)
    /\ hooks.pointY = RFrac(3, 100)
    /\ hooks.force = RInt(-1) /\ hooks.moment = RInt(-1)
    /\ hooks.torque = RInt(0) /\ hooks.shearForce = RInt(-1)
    /\ stressSI.bending = NDiv(Num(RNorm(-12, 1, 6)), PI)
    /\ stressSI.axial = NDiv(Num(RNorm(-1, 1, 4)), PI)
    /\ stressSI.torsionalShear = Zero
    /\ stressSI.transverseShear = Zero

\* C6: a zero denominator gives a non-finite stress; for the degenerate hollow
\* section (Ri >= Ro) transverseShear is non-finite for every shear force,
\* ordinate and Q, also when shearForce*Q is 0.
C6_ZeroDenominator ==
    /\ IsZero(sectionProps.area) => ~IsFinite(stressSI.axial)
    /\ IsZero(sectionProps.inertia) => ~IsFinite(stressSI.bending)
    /\ IsZero(sectionProps.polarInertia) => ~IsFinite(stressSI.torsionalShear)
    /\ IsZero(NMul(sectionProps.inertia, sectionProps.shearThickness)) =>
          ~IsFinite(stressSI.transverseShear)
    /\ hooks.sectionType = "hollowCircle"
          /\ RLeq(si.hollowOuterSI, si.hollowInnerSI) =>
          IsFinite(Q_point) /\ ~IsFinite(stressSI.transverseShear)

\* Degenerate hollow section with shear force 0: the numerator is 0 too.
C6_Witness ==
    /\ hooks.sectionType = "hollowCircle"
    /\ hooks.hollowOuter = RFrac(2, 100) /\ hooks.hollowInner = RFrac(3, 100)
    /\ hooks.pointY = RFrac(1, 100) /\ hooks.shearForce = RInt(0)
    /\ Q_point # Zero
    /\ stressSI.transverseShear = NaN
    /\ stressSI.axial = Inf

\* C7: for the rectangle with a = h/2, Q = 0 when |y| > a and
\* Q = (b/2)*(a^2 - y^2) when |y| <= a, for every b, h and y.
C7_RectangleQ ==
    hooks.sectionType = "rectangle" =>
        LET b == si.rectWidthSI
            h == si.rectHeightSI
            y == si.pointYSI
        IN  IF RLess(h, RTwice(RAbs(y)))
            THEN Q_point = Zero
            ELSE Times(8, Q_point)
                    = Num(RMul(b, RMul(RSub(h, RTwice(y)), RAdd(h, RTwice(y)))))

C7_Witness ==
    /\ hooks.sectionType = "rectangle"
    /\ hooks.rectWidth = RFrac(2, 100) /\ hooks.rectHeight = RFrac(3, 100)
    /\ hooks.pointY = RFrac(-1, 100) /\ hooks.distanceUnit = "m"
    /\ Q_point = Num(RNorm(125, 1, -8))

\* C8: for the solid circle with r = d/2, Q = 0 when |y| > r and
\* Q = (2/3)*(r^2 - y^2)^1.5 when |y| <= r, that is Q >= 0 and
\* 9*Q^2 = 4*(r^2 - y^2)^3, for every d and y.
C8_CircleQ ==
    hooks.sectionType = "circle" =>
        LET d == si.circleDiameterSI
            y == si.pointYSI
            \* 4*(r^2 - y^2) = (d - 2y)*(d + 2y)
            w == RMul(RSub(d, RTwice(y)), RAdd(d, RTwice(y)))
        IN  IF RLess(d, RTwice(RAbs(y)))
            THEN Q_point = Zero
            ELSE /\ NonNegative(Q_point)
                 /\ Times(144, NMul(Q_point, Q_point)) = Num(RCube(w))

\* d = 0.03, y = 0.01: r^2 - y^2 = 1.25e-4, Q = (2/3) * 1.25e-4 * sqrt(5) * 0.005.
C8_Witness ==
    /\ hooks.sectionType = "circle" /\ hooks.distanceUnit = "m"
    /\ hooks.circleDiameter = RFrac(3, 100) /\ hooks.pointY = RFrac(1, 100)
    /\ Q_point = Fin(0, << [rad |-> 5, c |-> RNorm(125, 3, -8)] >>)

\* C9: for the hollow circle, tested in this order: Q = 0 when |y| > Ro;
\* Q = (2/3)*[(Ro^2 - y^2)^1.5 - (Ri^2 - y^2)^1.5] when |y| <= Ri;
\* Q = (2/3)*(Ro^2 - y^2)^1.5 when Ri < |y| <= Ro.
C9_HollowCircleQ ==
    hooks.sectionType = "hollowCircle" =>
        LET Ro == si.hollowOuterSI
            Ri == si.hollowInnerSI
            y  == si.pointYSI
            outer == Pow15(RMul(RSub(Ro, y), RAdd(Ro, y)))
            inner == Pow15(RMul(RSub(Ri, y), RAdd(Ri, y)))
        IN  IF RLess(Ro, RAbs(y)) THEN Q_point = Zero
            ELSE IF RLeq(RAbs(y), Ri)
            THEN NAdd(Times(3, Q_point), Times(2, inner)) = Times(2, outer)
            ELSE Times(3, Q_point) = Times(2, outer)

\* Ro = 0.03, Ri = 0.02, y = 0.01: Q = (2/3) * (8e-4^1.5 - 3e-4^1.5).
C9_Witness ==
    /\ hooks.sectionType = "hollowCircle" /\ hooks.distanceUnit = "m"
    /\ hooks.hollowOuter = RFrac(3, 100) /\ hooks.hollowInner = RFrac(2, 100)
    /\ hooks.pointY = RFrac(1, 100)
    /\ Q_point = Fin(0, << [rad |-> 2, c |-> RNorm(32, 3, -6)],
                           [rad |-> 3, c |-> RNorm(-2, 1, -6)] >>)

\* C10: for the I-beam with hd = h/2, Q = 0 when |y| > hd; Q = bf*tf +
\* tw*(hd - tf - |y|)*(hd - tf + |y|)/2 when |y| <= hd - tf; and
\* Q = bf*(hd - |y|)*((hd - |y|)/2) otherwise.
C10_IBeamQ ==
    hooks.sectionType = "iBeam" =>
        LET h  == si.iBeamDepthSI
            bf == si.iBeamFlangeWidthSI
            tf == si.iBeamFlangeThickSI
            tw == si.iBeamWebThickSI
            y2 == RTwice(RAbs(si.pointYSI))
            web == RSub(h, RTwice(tf))
        IN  IF RLess(h, y2) THEN Q_point = Zero
            ELSE IF RLeq(RAdd(y2, RTwice(tf)), h)
            THEN Times(8, Q_point)
                    = Num(RAdd(RMul(RInt(8), RMul(bf, tf)),
                               RMul(tw, RSub(RSq(web), RSq(y2)))))
            ELSE Times(8, Q_point) = Num(RMul(bf, RSq(RSub(h, y2))))

\* h = 0.03, bf = 0.02, tf = 0.01, tw = 0.01: y = 0 is in the web.
C10_Witness ==
    /\ hooks.sectionType = "iBeam"
    /\ hooks.iBeamDepth = RFrac(3, 100) /\ hooks.iBeamFlangeWidth = RFrac(2, 100)
    /\ hooks.iBeamFlangeThick = RFrac(1, 100) /\ hooks.iBeamWebThick = RFrac(1, 100)
    /\ hooks.pointY = RInt(0)
    /\ Q_point = Num(RNorm(200125, 1, -9))

(***************************************************************************)
(* Validity of the dimensions of the selected variant.                     *)
(***************************************************************************)
Positive(a) == RSign(a) > 0
ValidIBeam ==
    /\ Positive(si.iBeamDepthSI) /\ Positive(si.iBeamFlangeWidthSI)
    /\ Positive(si.iBeamFlangeThickSI) /\ Positive(si.iBeamWebThickSI)
    /\ RLess(RTwice(si.iBeamFlangeThickSI), si.iBeamDepthSI)

\* C11: for the I-beam with positive dimensions and 2*tf < h, Q is the
\* integral of width(t) * t for t from |y| to h/2, the width being tw below
\* the flange root and bf in the flange: with the integral evaluated,
\* 8*Q = tw*((h - 2tf)^2 - (2y)^2) + bf*(h^2 - (h - 2tf)^2) in the web and
\* 8*Q = bf*(h^2 - (2y)^2) in the flange.
C11_IBeamFirstMoment ==
    hooks.sectionType = "iBeam" /\ ValidIBeam =>
        LET h  == si.iBeamDepthSI
            bf == si.iBeamFlangeWidthSI
            tf == si.iBeamFlangeThickSI
            tw == si.iBeamWebThickSI
            y2 == RTwice(RAbs(si.pointYSI))
            web == RSub(h, RTwice(tf))
        IN  RLeq(y2, h) =>
              IF RLeq(y2, web)
              THEN Times(8, Q_point)
                      = Num(RAdd(RMul(tw, RSub(RSq(web), RSq(y2))),
                                 RMul(bf, RSub(RSq(h), RSq(web)))))
              ELSE Times(8, Q_point) = Num(RMul(bf, RSub(RSq(h), RSq(y2))))

\* C12: for the rectangle, the solid circle and the hollow circle with
\* Ri < Ro, an ordinate on a boundary (|y| = a, |y| = r, |y| = Ri, |y| = Ro)
\* takes the inside (<=) branch, and the value that branch gives there is
\* the value of the adjacent outer branch's formula: 0 at |y| = a, r, Ro and
\* (2/3)*(Ro^2 - y^2)^1.5 at |y| = Ri.
C12_BoundaryContinuity ==
    LET y == si.pointYSI
    IN  /\ hooks.sectionType = "rectangle"
              /\ RTwice(RAbs(y)) = si.rectHeightSI =>
              /\ Times(8, Q_point)
                    = Num(RMul(si.rectWidthSI,
                               RSub(RSq(si.rectHeightSI), RSq(RTwice(y)))))
              /\ Q_point = Zero
        /\ hooks.sectionType = "circle"
              /\ RTwice(RAbs(y)) = si.circleDiameterSI =>
              /\ Q_point = NMul(Num(RFrac(2, 3)),
                                Pow15(RSub(RSq(RDiv(si.circleDiameterSI, RInt(2))),
                                           RSq(y))))
              /\ Q_point = Zero
        /\ hooks.sectionType = "hollowCircle"
              /\ RLess(si.hollowInnerSI, si.hollowOuterSI) =>
              LET outer == Pow15(RSub(RSq(si.hollowOuterSI), RSq(y)))
                  inner == Pow15(RSub(RSq(si.hollowInnerSI), RSq(y)))
              IN  /\ RAbs(y) = si.hollowOuterSI =>
                        /\ Q_point = NMul(Num(RFrac(2, 3)), outer)
                        /\ Q_point = Zero
                  /\ RAbs(y) = si.hollowInnerSI =>
                        /\ Q_point = NMul(Num(RFrac(2, 3)), NSub(outer, inner))
                        /\ Q_point = NMul(Num(RFrac(2, 3)), outer)

\* Ro = 0.03, Ri = 0.02, y = 0.02 (|y| = Ri): Q = (2/3) * 5e-4^1.5.
C12_Witness ==
    /\ hooks.sectionType = "hollowCircle"
    /\ hooks.hollowOuter = RFrac(3, 100) /\ hooks.hollowInner = RFrac(2, 100)
    /\ hooks.pointY = RFrac(2, 100)
    /\ Q_point = Fin(0, << [rad |-> 5, c |-> RNorm(10, 3, -6)] >>)

\* C13: for the I-beam with positive dimensions and 2*tf < h, Q is continuous
\* at its two branch boundaries: at |y| = h/2 the flange-branch value is 0,
\* and at the flange root |y| = h/2 - tf the web-branch value equals the
\* flange-branch formula bf*(h/2 - |y|)*((h/2 - |y|)/2) at that ordinate.
C13_IBeamContinuity ==
    hooks.sectionType = "iBeam" /\ ValidIBeam =>
        LET h  == si.iBeamDepthSI
            bf == si.iBeamFlangeWidthSI
            tf == si.iBeamFlangeThickSI
            y2 == RTwice(RAbs(si.pointYSI))
        IN  /\ y2 = h => Q_point = Zero
            /\ y2 = RSub(h, RTwice(tf)) =>
                  Times(8, Q_point) = Num(RMul(bf, RSq(RSub(h, y2))))

\* Every dimension of the selected variant is positive.
PositiveDimensions ==
    CASE hooks.sectionType = "rectangle" ->
            Positive(si.rectWidthSI) /\ Positive(si.rectHeightSI)
      [] hooks.sectionType = "circle" -> Positive(si.circleDiameterSI)
      [] hooks.sectionType = "hollowCircle" ->
            Positive(si.hollowOuterSI) /\ Positive(si.hollowInnerSI)
      [] hooks.sectionType = "iBeam" ->
            /\ Positive(si.iBeamDepthSI) /\ Positive(si.iBeamFlangeWidthSI)
            /\ Positive(si.iBeamFlangeThickSI) /\ Positive(si.iBeamWebThickSI)
      [] OTHER -> FALSE

\* The ordinate is the outerRadius the section-property computation returned.
AtOuterRadius == Num(si.pointYSI) = sectionProps.outerRadius

\* C14 (as stated): for every variant and every set of positive dimensions,
\* Q at y = outerRadius is 0.
C14_OuterRadiusQAnyPositive ==
    PositiveDimensions /\ AtOuterRadius => Q_point = Zero

\* C14 (amended): for every variant and every set of positive dimensions
\* with Ri <= Ro for the hollow circle, Q at y = outerRadius is 0.
C14_OuterRadiusQ ==
    /\ PositiveDimensions /\ AtOuterRadius
    /\ (hooks.sectionType = "hollowCircle" => RLeq(si.hollowInnerSI, si.hollowOuterSI))
    => Q_point = Zero

\* Ro = 0.03, Ri = 0.02, y = 0.03 = outerRadius.
C14_Witness ==
    /\ hooks.sectionType = "hollowCircle"
    /\ hooks.hollowOuter = RFrac(3, 100) /\ hooks.hollowInner = RFrac(2, 100)
    /\ hooks.pointY = RFrac(3, 100)
    /\ sectionProps.outerRadius = Num(RFrac(3, 100))
    /\ Q_point = Zero

(***************************************************************************)
(* Order of finite numbers.  The sign of a sum of square-root terms is     *)
(* found by comparing the squares of its positive and its negative part;   *)
(* this ends for the sums of at most three terms the properties compare.   *)
(***************************************************************************)
IsPositiveTerm(m) == m.c.n > 0
IsNegativeTerm(m) == m.c.n < 0
RECURSIVE NSign(_)
NSignOfParts(p, n) ==
    IF IsZero(n) THEN 1
    ELSE IF IsZero(p) THEN -1
    ELSE NSign(NSub(NMul(p, p), NMul(n, n)))
NSign(x) ==
    IF x.t = << >> THEN 0
    ELSE NSignOfParts(Fin(0, SelectSeq(x.t, IsPositiveTerm)),
                      Fin(0, SelectSeq(x.t, IsNegativeTerm)))
\* x <= y for finite x, y with the same power of pi.
NLeq(x, y) == NSign(NSub(y, x)) >= 0

\* Valid dimensions of the selected variant: all positive, Ri < Ro for the
\* hollow circle, 2*tf < h for the I-beam.
ValidDimensions ==
    /\ PositiveDimensions
    /\ hooks.sectionType = "hollowCircle" => RLess(si.hollowInnerSI, si.hollowOuterSI)
    /\ hooks.sectionType = "iBeam" =>
          RLess(RTwice(si.iBeamFlangeThickSI), si.iBeamDepthSI)

\* Q of the current section at the ordinate y (in SI).
QAt(y) == Q_pointCalc(hooks.sectionType, [si EXCEPT !.pointYSI = y])

\* C15: for every variant and valid dimensions (all positive, Ri < Ro,
\* 2*tf < h), Q at y = 0 is the maximum of Q: Q(0) >= Q(y) for every y.
C15_QMaxAtNeutralAxis ==
    ValidDimensions => NLeq(Q_point, QAt(RZero))

\* C16: Q is an even function of the ordinate, for all four variants and
\* every dimension set: Q(y) = Q(-y).
C16_QEven == Q_point = QAt(RNeg(si.pointYSI))

\* The initial I-beam at y = -0.01: Q = 0.002 + 0.01 * 0.07 * 0.09 / 2.
C16_Witness ==
    /\ hooks.sectionType = "iBeam" /\ hooks.pointY = RFrac(-1, 100)
    /\ Q_point = Num(RNorm(20315, 1, -7))
    /\ QAt(RFrac(1, 100)) = Num(RNorm(20315, 1, -7))

\* C17: for all four variants and valid dimensions (all positive, Ri < Ro,
\* 2*tf < h, any positive bf and tw, tw > bf included), area, inertia and
\* polarInertia are non-negative.
C17_PropsNonNegative ==
    ValidDimensions =>
        /\ IsFinite(sectionProps.area) /\ NSign(sectionProps.area) >= 0
        /\ IsFinite(sectionProps.inertia) /\ NSign(sectionProps.inertia) >= 0
        /\ IsFinite(sectionProps.polarInertia) /\ NSign(sectionProps.polarInertia) >= 0

\* The I-beam with tw = 0.02 > bf = 0.01, tf = 0.01, h = 0.2.
C17_Witness ==
    /\ hooks.sectionType = "iBeam"
    /\ hooks.iBeamFlangeWidth = RFrac(1, 100) /\ hooks.iBeamWebThick = RFrac(2, 100)
    /\ hooks.iBeamFlangeThick = RFrac(1, 100)
    /\ ValidDimensions
    /\ sectionProps.area = Num(RNorm(38, 1, -4))
    /\ sectionProps.inertia = Num(RNorm(13832, 12, -8))

\* C18: no stale state: after any sequence of input changes the memoised
\* section properties and the memoised Q equal what a fresh computation from
\* the current inputs returns.
C18_NoStaleMemo ==
    /\ sectionProps = sectionPropsCalc(hooks.sectionType, si)
    /\ Q_point = Q_pointCalc(hooks.sectionType, si)

\* The I-beam in mm and kN with tw = 0.02 mm at y = 0.01 mm:
\* Q = 2e-9 + 2e-5 * 7e-5 * 9e-5 / 2.
C18_Witness ==
    /\ hooks.sectionType = "iBeam" /\ hooks.distanceUnit = "mm"
    /\ hooks.forceUnit = "kN" /\ hooks.shearForce = RInt(-1)
    /\ hooks.iBeamWebThick = RFrac(2, 100) /\ hooks.pointY = RFrac(1, 100)
    /\ hooks.rectHeight = RFrac(3, 100)
    /\ sectionProps.shearThickness = Num(RNorm(2, 1, -5))
    /\ Q_point = Num(RNorm(2000063, 1, -15))

\* The ordinate lies outside the section: |y| > outerRadius.
OutOfRange ==
    /\ IsFinite(sectionProps.outerRadius)
    /\ NSign(NSub(Num(RAbs(si.pointYSI)), sectionProps.outerRadius)) > 0

\* C19: for an out-of-range ordinate (|y| > outerRadius) with valid
\* dimensions nothing is rejected: Q = 0 and so transverseShear = 0, while
\* bending = bendingMoment*y/inertia and torsionalShear =
\* torque*|y|/polarInertia are computed unclamped and are non-zero when the
\* corresponding load is non-zero.
C19_OutOfRange ==
    ValidDimensions /\ OutOfRange =>
        /\ Q_point = Zero
        /\ stressSI.transverseShear = Zero
        /\ NMul(stressSI.bending, sectionProps.inertia)
              = Num(RMul(si.momentSI, si.pointYSI))
        /\ NMul(stressSI.torsionalShear, sectionProps.polarInertia)
              = Num(RMul(si.torqueSI, RAbs(si.pointYSI)))
        /\ si.momentSI # RZero =>
              IsFinite(stressSI.bending) /\ ~IsZero(stressSI.bending)
        /\ si.torqueSI # RZero =>
              IsFinite(stressSI.torsionalShear) /\ ~IsZero(stressSI.torsionalShear)

\* The initial rectangle and loads at y = 0.06 > 0.05:
\* bending = 1000 * 0.06 * 12 / 5e-5, torsionalShear = 1000 * 0.06 * 3 / 5e-5.
C19_Witness ==
    /\ hooks.sectionType = "rectangle" /\ hooks.pointY = RFrac(6, 100)
    /\ hooks.moment = RInt(1000) /\ hooks.torque = RInt(1000)
    /\ hooks.shearForce = RInt(500)
    /\ ValidDimensions /\ OutOfRange
    /\ Q_point = Zero
    /\ stressSI.transverseShear = Zero
    /\ stressSI.bending = Num(RInt(14400000))
    /\ stressSI.torsionalShear = Num(RInt(3600000))

\* The stresses of the current section and loads at the mirrored ordinate.
MirroredBending ==
    BendingStress(si.momentSI, RNeg(si.pointYSI), sectionProps.inertia)
MirroredTorsionalShear ==
    TorsionalShear(si.torqueSI, RNeg(si.pointYSI), sectionProps.polarInertia)

\* C20: sign convention. For valid dimensions (inertia > 0) a positive
\* bending moment at a positive ordinate gives a positive bending stress;
\* the bending stress is odd in y, the torsional shear is even in y and is
\* never negative for a non-negative torque.
C20_SignConvention ==
    ValidDimensions =>
        /\ NSign(sectionProps.inertia) > 0
        /\ Positive(si.momentSI) /\ Positive(si.pointYSI) =>
              IsFinite(stressSI.bending) /\ NSign(stressSI.bending) > 0
        /\ MirroredBending = NNeg(stressSI.bending)
        /\ MirroredTorsionalShear = stressSI.torsionalShear
        /\ ~RLess(si.torqueSI, RZero) =>
              IsFinite(stressSI.torsionalShear) /\ NSign(stressSI.torsionalShear) >= 0

\* The initial rectangle and loads at y = 0.01: bending = 1000 * 0.01 * 12 /
\* 5e-5 and its mirror image at y = -0.01, torsionalShear = 1000 * 0.01 * 3 /
\* 5e-5 at both.
C20_Witness ==
    /\ hooks.sectionType = "rectangle" /\ hooks.pointY = RFrac(1, 100)
    /\ hooks.moment = RInt(1000) /\ hooks.torque = RInt(1000)
    /\ ValidDimensions
    /\ stressSI.bending = Num(RInt(2400000))
    /\ MirroredBending = Num(RInt(-2400000))
    /\ stressSI.torsionalShear = Num(RInt(600000))
    /\ MirroredTorsionalShear = Num(RInt(600000))

\* Scale factors k > 0 applied to every length: the fractions i/j.
MaxScale == 3
ScaleFactors == { RFrac(i, j) : i, j \in 1 .. MaxScale }

\* The SI values s with every length (all dimensions and the ordinate)
\* multiplied by k.
ScaledLengths(s, k) ==
    [ s EXCEPT !.rectWidthSI = RMul(@, k), !.rectHeightSI = RMul(@, k),
               !.circleDiameterSI = RMul(@, k),
               !.hollowOuterSI = RMul(@, k), !.hollowInnerSI = RMul(@, k),
               !.iBeamDepthSI = RMul(@, k), !.iBeamFlangeWidthSI = RMul(@, k),
               !.iBeamFlangeThickSI = RMul(@, k), !.iBeamWebThickSI = RMul(@, k),
               !.pointYSI = RMul(@, k) ]

\* C21: Q has the dimension of length cubed for every variant: multiplying
\* every length input (all dimensions of the active variant and the
\* ordinate y) by the same factor k > 0 multiplies Q by exactly k^3, in
\* every branch of every variant.
C21_QCubicScaling ==
    \A k \in ScaleFactors :
        Q_pointCalc(hooks.sectionType, ScaledLengths(si, k))
            = NMul(Num(RCube(k)), Q_point)

\* The dimension fields of each variant, and those of the other variants.
DimensionFields(sectionType) ==
    CASE sectionType = "rectangle" -> {"rectWidth", "rectHeight"}
      [] sectionType = "circle" -> {"circleDiameter"}
      [] sectionType = "hollowCircle" -> {"hollowOuter", "hollowInner"}
      [] sectionType = "iBeam" ->
            {"iBeamDepth", "iBeamFlangeWidth", "iBeamFlangeThick", "iBeamWebThick"}
      [] OTHER -> {}
AllDimensionFields == UNION { DimensionFields(t) : t \in SectionTypes }
InactiveFields == (AllDimensionFields \ DimensionFields(hooks.sectionType)) \cup {"beamLength"}

\* The current inputs with every inactive field as it was initially.
InactiveReset ==
    [ f \in DOMAIN hooks |-> IF f \in InactiveFields THEN InitialHooks[f] ELSE hooks[f] ]

\* The section properties, Q and the stresses computed from the inputs h
\* are those on the screen.
SameResults(h) ==
    /\ sectionPropsCalc(h.sectionType, SI(h)) = sectionProps
    /\ Q_pointCalc(h.sectionType, SI(h)) = Q_point
    /\ StressesOf(SI(h), sectionProps, Q_point) = stressSI

\* C22: exactly one variant is active per evaluation: the section type is
\* always one of rectangle, circle, hollowCircle, iBeam, and changing a
\* dimension that belongs to a variant other than the active one (or the
\* beam length) leaves the section properties, Q and all four stresses
\* unchanged.
C22_InactiveFrame ==
    /\ hooks.sectionType \in SectionTypes
    /\ SameResults(InactiveReset)
    /\ \A f \in InactiveFields : \A v \in LenValues :
          SameResults([hooks EXCEPT ![f] = v])

\* The circle selected after the rectangle height was set to 0.03 and the
\* beam length to 0.02: the properties are those of the initial circle,
\* area = pi * 0.04^2 and outerRadius = 0.04, and Q = (2/3) * 0.04^3.
C22_Witness ==
    /\ hooks.sectionType = "circle"
    /\ hooks.circleDiameter = RFrac(8, 100)
    /\ hooks.rectHeight = RFrac(3, 100)
    /\ hooks.beamLength = RFrac(2, 100)
    /\ sectionProps.area = NMul(PI, Num(RFrac(16, 10000)))
    /\ sectionProps.outerRadius = Num(RFrac(4, 100))
    /\ Q_point = Num(RMul(RFrac(2, 3), RFrac(64, 1000000)))

\* The factors of the selected units: 1 for m and 0.001 for mm, 1 for N and
\* 1000 for kN, 1 for Pa and 1e6 for MPa.
SelectedDistanceFactor ==
    CASE hooks.distanceUnit = "m" -> RInt(1)
      [] hooks.distanceUnit = "mm" -> RFrac(1, 1000)
SelectedForceFactor ==
    CASE hooks.forceUnit = "N" -> RInt(1)
      [] hooks.forceUnit = "kN" -> RInt(1000)
SelectedPressureFactor ==
    CASE hooks.pressureUnit = "Pa" -> RInt(1)
      [] hooks.pressureUnit = "MPa" -> RInt(1000000)

\* The entered field values converted to SI.
EnteredSI ==
    [ beamLengthSI |-> RMul(hooks.beamLength, SelectedDistanceFactor),
      forceSI |-> RMul(hooks.force, SelectedForceFactor),
      momentSI |-> RMul(hooks.moment, RMul(SelectedForceFactor, SelectedDistanceFactor)),
      torqueSI |-> RMul(hooks.torque, RMul(SelectedForceFactor, SelectedDistanceFactor)),
      shearForceSI |-> RMul(hooks.shearForce, SelectedForceFactor),
      rectWidthSI |-> RMul(hooks.rectWidth, SelectedDistanceFactor),
      rectHeightSI |-> RMul(hooks.rectHeight, SelectedDistanceFactor),
      circleDiameterSI |-> RMul(hooks.circleDiameter, SelectedDistanceFactor),
      hollowOuterSI |-> RMul(hooks.hollowOuter, SelectedDistanceFactor),
      hollowInnerSI |-> RMul(hooks.hollowInner, SelectedDistanceFactor),
      iBeamDepthSI |-> RMul(hooks.iBeamDepth, SelectedDistanceFactor),
      iBeamFlangeWidthSI |-> RMul(hooks.iBeamFlangeWidth, SelectedDistanceFactor),
      iBeamFlangeThickSI |-> RMul(hooks.iBeamFlangeThick, SelectedDistanceFactor),
      iBeamWebThickSI |-> RMul(hooks.iBeamWebThick, SelectedDistanceFactor),
      pointYSI |-> RMul(hooks.pointY, SelectedDistanceFactor) ]

\* C23: every quantity entering the section, Q and stress computations is
\* the entered field value converted to SI (lengths by the distance factor,
\* axial and shear force by the force factor, bending moment and torque by
\* both); each displayed stress is the SI stress divided by the pressure
\* factor, and the pressure-unit selection changes no SI value.
C23_UnitConversion ==
    /\ si = EnteredSI
    /\ sectionProps = sectionPropsCalc(hooks.sectionType, EnteredSI)
    /\ Q_point = Q_pointCalc(hooks.sectionType, EnteredSI)
    /\ stressSI = StressesOf(EnteredSI, sectionProps, Q_point)
    /\ stressDisplay.axial = NDiv(stressSI.axial, Num(SelectedPressureFactor))
    /\ stressDisplay.bending = NDiv(stressSI.bending, Num(SelectedPressureFactor))
    /\ stressDisplay.torsionalShear
          = NDiv(stressSI.torsionalShear, Num(SelectedPressureFactor))
    /\ stressDisplay.transverseShear
          = NDiv(stressSI.transverseShear, Num(SelectedPressureFactor))
    /\ \A u \in PressureUnits :
          /\ SI([hooks EXCEPT !.pressureUnit = u]) = si
          /\ StressesOf(SI([hooks EXCEPT !.pressureUnit = u]), sectionProps, Q_point)
                = stressSI

\* The initial rectangle and loads read in kN, mm and MPa at y = 0.03 mm:
\* momentSI = 1000 * 1000 * 0.001, inertia = 5e-5 * (1e-4)^3 / 12,
\* bending = 1000 * 3e-5 * 12 / 5e-17 = 7.2e15 Pa = 7.2e9 MPa.
C23_Witness ==
    /\ hooks.sectionType = "rectangle"
    /\ hooks.forceUnit = "kN" /\ hooks.distanceUnit = "mm" /\ hooks.pressureUnit = "MPa"
    /\ hooks.moment = RInt(1000) /\ hooks.pointY = RFrac(3, 100)
    /\ si.momentSI = RInt(1000)
    /\ si.pointYSI = RNorm(3, 1, -5)
    /\ sectionProps.inertia = Num(RNorm(5, 12, -17))
    /\ stressSI.bending = Num(RNorm(72, 1, 14))
    /\ stressDisplay.bending = Num(RNorm(72, 1, 8))

\* The four stresses are finite numbers.
FiniteStresses(stress) ==
    /\ IsFinite(stress.axial) /\ IsFinite(stress.bending)
    /\ IsFinite(stress.torsionalShear) /\ IsFinite(stress.transverseShear)

\* C24: for valid dimensions (all positive, Ri < Ro for the hollow circle,
\* 2*tf < h for the I-beam) every stress denominator (area, inertia,
\* polarInertia, inertia*shearThickness) is strictly positive, so all four
\* stresses are finite for every load set and ordinate; in particular the
\* initial state of the form shows four finite stresses.
C24_FiniteStresses ==
    /\ ValidDimensions =>
          /\ IsFinite(sectionProps.area) /\ NSign(sectionProps.area) > 0
          /\ IsFinite(sectionProps.inertia) /\ NSign(sectionProps.inertia) > 0
          /\ IsFinite(sectionProps.polarInertia) /\ NSign(sectionProps.polarInertia) > 0
          /\ IsFinite(NMul(sectionProps.inertia, sectionProps.shearThickness))
          /\ NSign(NMul(sectionProps.inertia, sectionProps.shearThickness)) > 0
          /\ FiniteStresses(stressSI)
          /\ FiniteStresses(stressDisplay)
    /\ hooks = InitialHooks => ValidDimensions /\ FiniteStresses(stressDisplay)

\* The hollow circle with Ri = 0.03 under the axial force -1 at y = 0.02:
\* area = pi * (0.08^2 - 0.03^2) and axial = -1 / area.
C24_Witness ==
    /\ hooks.sectionType = "hollowCircle" /\ hooks.hollowInner = RFrac(3, 100)
    /\ hooks.force = RInt(-1) /\ hooks.pointY = RFrac(2, 100)
    /\ ValidDimensions
    /\ sectionProps.area = NMul(PI, Num(RFrac(55, 10000)))
    /\ NMul(stressSI.axial, sectionProps.area) = Num(RInt(-1))
    /\ FiniteStresses(stressSI)

\* The bases of Math.pow(..., 1.5) and the branches that use them.
CircleRadius == RDiv(si.circleDiameterSI, RInt(2))
CircleBase == RSub(RSq(CircleRadius), RSq(si.pointYSI))
OuterBase == RSub(RSq(si.hollowOuterSI), RSq(si.pointYSI))
InnerBase == RSub(RSq(si.hollowInnerSI), RSq(si.pointYSI))
UsesCircleBase ==
    hooks.sectionType = "circle" /\ ~RLess(CircleRadius, RAbs(si.pointYSI))
UsesOuterBase ==
    hooks.sectionType = "hollowCircle" /\ ~RLess(si.hollowOuterSI, RAbs(si.pointYSI))
UsesInnerBase == UsesOuterBase /\ RLeq(RAbs(si.pointYSI), si.hollowInnerSI)

\* C25: the Q computation never raises a negative number to the power 1.5:
\* for every variant, dimension (zero and negative ones and Ri >= Ro
\* included) and ordinate, each base r^2 - y^2, Ro^2 - y^2, Ri^2 - y^2 is
\* non-negative in the branch that uses it, and Q is a defined real number.
C25_NoNegativeBase ==
    /\ UsesCircleBase => RSign(CircleBase) >= 0
    /\ UsesOuterBase => RSign(OuterBase) >= 0
    /\ UsesInnerBase => RSign(InnerBase) >= 0
    /\ IsFinite(Q_point)

\* The hollow circle with Ro = 0.02 < Ri = 0.03 at y = -0.01: both bases are
\* used, 0.0003 and 0.0008, and Q = (2/3) * (0.0003^1.5 - 0.0008^1.5) =
\* (2/3) * (3e-6 * sqrt(3) - 16e-6 * sqrt(2)).
C25_Witness ==
    /\ hooks.sectionType = "hollowCircle" /\ hooks.distanceUnit = "m"
    /\ hooks.hollowOuter = RFrac(2, 100) /\ hooks.hollowInner = RFrac(3, 100)
    /\ hooks.pointY = RFrac(-1, 100)
    /\ UsesInnerBase
    /\ OuterBase = RFrac(3, 10000) /\ InnerBase = RFrac(8, 10000)
    /\ Q_point = NSub(NMul(Num(RFrac(2, 3)), Pow15(RFrac(3, 10000))),
                      NMul(Num(RFrac(2, 3)), Pow15(RFrac(8, 10000))))
    /\ IsFinite(Q_point) /\ NSign(Q_point) < 0

\* C26: for valid dimensions (all positive, Ri < Ro, 2*tf < h), Q is
\* non-negative at every ordinate y for all four variants.
C26_QNonNegative ==
    ValidDimensions => IsFinite(Q_point) /\ NSign(Q_point) >= 0

\* The hollow circle with Ro = 0.03, Ri = 0.01 at y = -0.01:
\* Q = (2/3) * (0.0008^1.5 - 0) = (32/3) * 1e-6 * sqrt(2).
C26_Witness ==
    /\ hooks.sectionType = "hollowCircle"
    /\ hooks.hollowOuter = RFrac(3, 100) /\ hooks.hollowInner = RFrac(1, 100)
    /\ hooks.pointY = RFrac(-1, 100)
    /\ ValidDimensions
    /\ Q_point = Fin(0, << [rad |-> 2, c |-> RNorm(32, 3, -6)] >>)
    /\ NSign(Q_point) > 0

(***************************************************************************)
(* The two earlier versions of the component.  Their inputs are SI values  *)
(* (no unit selection); the first has the rectangle and the circle, the    *)
(* second adds the hollow circle.                                          *)
(***************************************************************************)
\* First version, sectionProps, branch "rectangle".
FirstRectangleProps(rectWidth, rectHeight) ==
    Props(Num(RMul(rectWidth, rectHeight)),
          NDiv(Num(RMul(rectWidth, RPow(rectHeight, 3))), Num(RInt(12))),
          NDiv(Num(RMul(rectWidth, RPow(rectHeight, 3))), Num(RInt(3))),
          Num(RDiv(rectHeight, RInt(2))),
          Num(rectWidth))

\* FirstCircleProps with the divisors of the radius formulas.
FirstCirclePropsRadiusDivisors(diameter) ==
    Props(NMul(PI, Num(RPow(diameter, 2))),
          NDiv(NMul(PI, Num(RPow(diameter, 4))), Num(RInt(4))),
          NDiv(NMul(PI, Num(RPow(diameter, 4))), Num(RInt(2))),
          Num(RDiv(diameter, RInt(2))),
          Num(diameter))

\* First version, sectionProps, branch "circle" (diameter-based).
FirstCircleProps(diameter) ==
    Props(NDiv(NMul(PI, Num(RPow(diameter, 2))), Num(RInt(4))),
          NDiv(NMul(PI, Num(RPow(diameter, 4))), Num(RInt(64))),
          NDiv(NMul(PI, Num(RPow(diameter, 4))), Num(RInt(32))),
          Num(RDiv(diameter, RInt(2))),
          Num(diameter))

\* First version, the function given to the first useMemo.
FirstSectionProps(sectionType, rectWidth, rectHeight, diameter) ==
    CASE sectionType = "rectangle" -> FirstRectangleProps(rectWidth, rectHeight)
      [] sectionType = "circle" -> FirstCircleProps(diameter)
      [] OTHER -> Props(Zero, Zero, Zero, Zero, Zero)

\* First version, the function given to the second useMemo.
FirstQ_point(sectionType, rectWidth, rectHeight, diameter, pointY) ==
    CASE sectionType = "rectangle" ->
            IF RLess(RDiv(rectHeight, RInt(2)), RAbs(pointY)) THEN Zero
            ELSE Num(RMul(RDiv(rectWidth, RInt(2)),
                          RSub(RPow(RDiv(rectHeight, RInt(2)), 2), RPow(pointY, 2))))
      [] sectionType = "circle" ->
            IF RLess(RDiv(diameter, RInt(2)), RAbs(pointY)) THEN Zero
            ELSE NMul(Num(RFrac(2, 3)),
                      Pow15(RSub(RMul(RDiv(diameter, RInt(2)), RDiv(diameter, RInt(2))),
                                 RMul(pointY, pointY))))
      [] OTHER -> Zero

\* Second version, sectionProps, branch "circle" (radius-based).
SecondCircleProps(circleDiameter) ==
    Props(NMul(PI, Num(RPow(RDiv(circleDiameter, RInt(2)), 2))),
          NDiv(NMul(PI, Num(RPow(RDiv(circleDiameter, RInt(2)), 4))), Num(RInt(4))),
          NDiv(NMul(PI, Num(RPow(RDiv(circleDiameter, RInt(2)), 4))), Num(RInt(2))),
          Num(RDiv(circleDiameter, RInt(2))),
          Num(circleDiameter))

\* Second version, sectionProps, branch "hollowCircle".
SecondHollowCircleProps(R_o, R_i) ==
    IF RLeq(R_o, R_i) THEN Props(Zero, Zero, Zero, Num(R_o), Zero)
    ELSE Props(NMul(PI, Num(RSub(RPow(R_o, 2), RPow(R_i, 2)))),
               NMul(NDiv(PI, Num(RInt(4))), Num(RSub(RPow(R_o, 4), RPow(R_i, 4)))),
               NMul(NDiv(PI, Num(RInt(2))), Num(RSub(RPow(R_o, 4), RPow(R_i, 4)))),
               Num(R_o),
               Num(RSub(R_o, R_i)))

\* Second version, the function given to the first useMemo (its rectangle
\* branch is the first version's, statement for statement).
SecondSectionProps(sectionType, rectWidth, rectHeight, circleDiameter, hollowOuter, hollowInner) ==
    CASE sectionType = "rectangle" -> FirstRectangleProps(rectWidth, rectHeight)
      [] sectionType = "circle" -> SecondCircleProps(circleDiameter)
      [] sectionType = "hollowCircle" -> SecondHollowCircleProps(hollowOuter, hollowInner)
      [] OTHER -> Props(Zero, Zero, Zero, Zero, Zero)

\* Second version, Q_point, branch "hollowCircle".
SecondHollowCircleQ(R_o, R_i, pointY) ==
    IF RLess(R_o, RAbs(pointY)) THEN Zero
    ELSE IF RLeq(RAbs(pointY), R_i)
    THEN NMul(Num(RFrac(2, 3)),
              NSub(Pow15(RSub(RMul(R_o, R_o), RMul(pointY, pointY))),
                   Pow15(RSub(RMul(R_i, R_i), RMul(pointY, pointY)))))
    ELSE NMul(Num(RFrac(2, 3)), Pow15(RSub(RMul(R_o, R_o), RMul(pointY, pointY))))

\* Second version, the function given to the second useMemo (its rectangle
\* and circle branches are the first version's, statement for statement).
SecondQ_point(sectionType, rectWidth, rectHeight, circleDiameter, hollowOuter, hollowInner, pointY) ==
    CASE sectionType = "hollowCircle" ->
            SecondHollowCircleQ(hollowOuter, hollowInner, pointY)
      [] OTHER -> FirstQ_point(sectionType, rectWidth, rectHeight, circleDiameter, pointY)

\* C27: the three versions of the component agree on the variants they
\* share: for identical SI inputs the rectangle and solid-circle section
\* properties and Q of the first version (diameter-based formulas) equal
\* those of the later two versions (radius-based), and the hollow-circle
\* properties and Q of the second version equal those of the final version
\* with units m, N, Pa selected.
C27_VersionsAgree ==
    /\ hooks.sectionType \in {"rectangle", "circle"} =>
          /\ FirstSectionProps(hooks.sectionType, si.rectWidthSI, si.rectHeightSI,
                               si.circleDiameterSI) = sectionProps
          /\ FirstQ_point(hooks.sectionType, si.rectWidthSI, si.rectHeightSI,
                          si.circleDiameterSI, si.pointYSI) = Q_point
          /\ SecondSectionProps(hooks.sectionType, si.rectWidthSI, si.rectHeightSI,
                                si.circleDiameterSI, si.hollowOuterSI,
                                si.hollowInnerSI) = sectionProps
          /\ SecondQ_point(hooks.sectionType, si.rectWidthSI, si.rectHeightSI,
                           si.circleDiameterSI, si.hollowOuterSI, si.hollowInnerSI,
                           si.pointYSI) = Q_point
    /\ /\ hooks.sectionType = "hollowCircle"
       /\ hooks.distanceUnit = "m" /\ hooks.forceUnit = "N" /\ hooks.pressureUnit = "Pa"
       => /\ SecondSectionProps(hooks.sectionType, hooks.rectWidth, hooks.rectHeight,
                                hooks.circleDiameter, hooks.hollowOuter,
                                hooks.hollowInner) = sectionProps
          /\ SecondQ_point(hooks.sectionType, hooks.rectWidth, hooks.rectHeight,
                           hooks.circleDiameter, hooks.hollowOuter, hooks.hollowInner,
                           hooks.pointY) = Q_point

\* The circle of diameter 0.02 at y = 0.01: the first version's
\* pi * 0.02^4 / 64 is the inertia pi * 0.01^4 / 4 on the screen, and Q = 0.
C27_Witness ==
    /\ hooks.sectionType = "circle" /\ hooks.distanceUnit = "m"
    /\ hooks.circleDiameter = RFrac(2, 100) /\ hooks.pointY = RFrac(1, 100)
    /\ FirstCircleProps(si.circleDiameterSI).inertia
          = NDiv(NMul(PI, Num(RNorm(16, 1, -8))), Num(RInt(64)))
    /\ sectionProps.inertia = NMul(PI, Num(RNorm(25, 1, -10)))
    /\ FirstCircleProps(si.circleDiameterSI) = sectionProps
    /\ Q_point = Zero

====
